---- MODULE Spec2Model ----
(***************************************************************************)
(* Kimi Code provider: the OAuth device-code login (loginKimiCode) and the *)
(* token refresh (refreshKimiCodeToken) of src/index.ts.                   *)
(*                                                                         *)
(* Under Spec the host makes one call, a login or a refresh; under        *)
(* ConcurrentSpec a login and a refresh run together.  A call runs         *)
(* atomically                                                              *)
(* from one await to the next; the awaits are the HTTP requests and the    *)
(* poll-interval sleep.  The authorization server, the clock and the       *)
(* host's cancellation signal are the environment.                         *)
(* The clock counts milliseconds; expires_in and interval are seconds.     *)
(***************************************************************************)
EXTENDS Integers, TLC

\* ------------------------------------------------------------------------
\* Bounds of the model
\* ------------------------------------------------------------------------

\* The clock never passes MaxSeconds: a step that would is not taken.
MaxSeconds == 4

MaxClock == MaxSeconds * 1000

\* The count of device-authorization requests stops at MaxCount ("or more").
MaxCount == 2

\* An HTTP round trip takes under a second or a full one; a sleep takes what
\* it asks for.
Elapsed == {0, 1000}

\* ------------------------------------------------------------------------
\* Values the environment supplies
\* ------------------------------------------------------------------------

\* A missing string field and the empty string are both falsy: "".
\* A missing numeric field and 0 are both falsy: 0.
DeviceIds == {"id1", "id2"}

DeviceCodes == {"dc1", "dc2"}

\* has_expires_in, has_interval: the body has the field at all.
AuthFields(status, user, device, uri, e, he, i, hi) ==
    [status |-> status, user_code |-> user, device_code |-> device,
     verification_uri_complete |-> uri, expires_in |-> e, has_expires_in |-> he,
     interval |-> i, has_interval |-> hi]

\* A body in which a numeric field of 0 stands for a field left out.
AuthBody(status, user, device, uri, e, i) ==
    AuthFields(status, user, device, uri, e, e # 0, i, i # 0)

\* The user code and the verification URL the server issues with a device code.
UserCodeOf(dc) == IF dc = "dc1" THEN "ABCD-1234" ELSE "WXYZ-5678"

UrlOf(dc) == IF dc = "dc1" THEN "url1" ELSE "url2"

\* Responses of POST /api/oauth/device_authorization.  expires_in: negative,
\* left out, 1 s, and 0 sent as a value.  interval: negative, left out, 2 s,
\* and 0 sent as a value.
AuthResponses ==
    {AuthBody(200, UserCodeOf(dc), dc, UrlOf(dc), e, i) :
        dc \in DeviceCodes, e \in {-1, 0, 1}, i \in {-1, 0, 2}}
    \cup {AuthFields(200, UserCodeOf(dc), dc, UrlOf(dc), 0, TRUE, 0, TRUE) : dc \in DeviceCodes}
    \cup {AuthBody(500, "", "", "", 0, 0), AuthBody(200, "", "dc1", "url1", 1, 2),
          AuthBody(200, "ABCD-1234", "", "url1", 1, 2), AuthBody(200, "ABCD-1234", "dc1", "", 1, 2)}

TokenBody(status, error, access, refresh, e) ==
    [status |-> status, error |-> error, access_token |-> access, refresh_token |-> refresh,
     expires_in |-> e]

\* Responses of POST /api/oauth/token.
TokenResponses ==
    {TokenBody(200, "", "at1", "rt1", e) : e \in {-1, 0, 3600}}
    \cup {TokenBody(200, "", "", "rt1", 3600), TokenBody(200, "", "at1", "", 3600),
          TokenBody(201, "", "at1", "rt1", 3600)}
    \cup {TokenBody(400, e, "", "", 0) :
            e \in {"authorization_pending", "expired_token", "access_denied", ""}}
    \cup {TokenBody(s, "", "", "", 0) : s \in {401, 403, 500}}

\* Credentials the host hands to refreshKimiCodeToken.
StoredCredentials ==
    [access : {"at0"}, refresh : {"rt0", "rt9"}, expires : {0, 1000}]

NoCredentials == [access |-> "", refresh |-> "", expires |-> 0]

VARIABLES
    now,             \* Date.now(), ms
    aborted,         \* callbacks.signal.aborted
    hasProgress,     \* callbacks.onProgress is supplied
    DEVICE_ID,       \* module-level DEVICE_ID; "" is null
    pc,              \* loginKimiCode: idle, authWait, tokenWait, sleeping, done, failed
    auth,            \* loginKimiCode: const auth
    interval,        \* loginKimiCode: const interval (ms)
    expiresAt,       \* loginKimiCode: const expiresAt (ms)
    token,           \* loginKimiCode: let token
    printedWaiting,  \* loginKimiCode: let printedWaiting
    result,          \* what loginKimiCode returned or threw
    rpc,             \* refreshKimiCodeToken: idle, wait, done, failed
    credentials,     \* refreshKimiCodeToken: the argument
    rresult,         \* what refreshKimiCodeToken returned or threw
    h                \* history: what an observer of the call has seen so far

vars == <<now, aborted, hasProgress, DEVICE_ID, pc, auth, interval, expiresAt, token,
          printedWaiting, result, rpc, credentials, rresult, h>>

\* ------------------------------------------------------------------------
\* Values of the program
\* ------------------------------------------------------------------------

Max(a, b) == IF a >= b THEN a ELSE b

Inc(n) == IF n < MaxCount THEN n + 1 ELSE n

NoAuth == [user_code |-> "", device_code |-> "", verification_uri_complete |-> "",
           expires_in |-> 0, interval |-> 0]

NoToken == [access_token |-> "", refresh_token |-> "", expires_in |-> 0]

NoResult == [kind |-> "none", access |-> "", refresh |-> "", expires |-> 0,
             message |-> "", detail |-> ""]

\* new Error(message): detail is the text after the colon of a template message.
Thrown(message, detail) ==
    [kind |-> "error", access |-> "", refresh |-> "", expires |-> 0,
     message |-> message, detail |-> detail]

Returned(access, refresh, expires) ==
    [kind |-> "creds", access |-> access, refresh |-> refresh, expires |-> expires,
     message |-> "", detail |-> ""]

StatusText(status) == ToString(status)

ResponseOk(status) == status >= 200 /\ status <= 299

\* ------------------------------------------------------------------------
\* Device identification
\* ------------------------------------------------------------------------

\* The test of line 49 left out: every use creates a new id.
getStableDeviceId_Regenerates(current) == DeviceIds

\* The values a call may return and leave in DEVICE_ID: any id
\* createDeviceId can make when none is kept, the kept one otherwise.
getStableDeviceId(current) == IF current = "" THEN DeviceIds ELSE {current}

\* ------------------------------------------------------------------------
\* The three requests: how each classifies the response it gets
\* ------------------------------------------------------------------------

\* The field check of line 111 left out: any success response is accepted.
requestDeviceAuthorization_NoFieldCheck(resp) ==
    IF ~ResponseOk(resp.status)
    THEN [tag |-> "throw", error |-> Thrown("Device authorization failed", StatusText(resp.status)),
          auth |-> NoAuth]
    ELSE [tag |-> "ok", error |-> NoResult,
          auth |-> [user_code |-> resp.user_code, device_code |-> resp.device_code,
                    verification_uri_complete |-> resp.verification_uri_complete,
                    expires_in |-> IF resp.expires_in = 0 THEN 1800 ELSE resp.expires_in,
                    interval |-> IF resp.interval = 0 THEN 5 ELSE resp.interval]]

requestDeviceAuthorization(resp) ==
    IF ~ResponseOk(resp.status)
    THEN [tag |-> "throw", error |-> Thrown("Device authorization failed", StatusText(resp.status)),
          auth |-> NoAuth]
    ELSE IF resp.user_code = "" \/ resp.device_code = "" \/ resp.verification_uri_complete = ""
    THEN [tag |-> "throw", error |-> Thrown("Invalid device authorization response", ""),
          auth |-> NoAuth]
    ELSE [tag |-> "ok", error |-> NoResult,
          auth |-> [user_code |-> resp.user_code, device_code |-> resp.device_code,
                    verification_uri_complete |-> resp.verification_uri_complete,
                    expires_in |-> IF resp.expires_in = 0 THEN 1800 ELSE resp.expires_in,
                    interval |-> IF resp.interval = 0 THEN 5 ELSE resp.interval]]

\* response.ok in place of response.status === 200 at line 139.
requestDeviceToken_AnyOkStatus(resp) ==
    IF ResponseOk(resp.status)
    THEN IF resp.access_token # "" /\ resp.refresh_token # ""
         THEN [tag |-> "token", error |-> NoResult,
               token |-> [access_token |-> resp.access_token,
                          refresh_token |-> resp.refresh_token,
                          expires_in |-> resp.expires_in]]
         ELSE [tag |-> "throw", error |-> Thrown("Token response missing required fields", ""),
               token |-> NoToken]
    ELSE IF resp.status = 400
    THEN IF resp.error = "authorization_pending"
         THEN [tag |-> "null", error |-> NoResult, token |-> NoToken]
         ELSE IF resp.error = "expired_token"
         THEN [tag |-> "throw", error |-> Thrown("expired_token", ""), token |-> NoToken]
         ELSE [tag |-> "throw",
               error |-> Thrown("Token request failed",
                                IF resp.error # "" THEN resp.error ELSE "unknown"),
               token |-> NoToken]
    ELSE [tag |-> "throw", error |-> Thrown("Token request failed", StatusText(resp.status)),
          token |-> NoToken]

\* Every 400 other than expired_token taken for "still waiting" at line 149.
requestDeviceToken_Any400Pending(resp) ==
    IF resp.status = 200
    THEN IF resp.access_token # "" /\ resp.refresh_token # ""
         THEN [tag |-> "token", error |-> NoResult,
               token |-> [access_token |-> resp.access_token,
                          refresh_token |-> resp.refresh_token,
                          expires_in |-> resp.expires_in]]
         ELSE [tag |-> "throw", error |-> Thrown("Token response missing required fields", ""),
               token |-> NoToken]
    ELSE IF resp.status = 400
    THEN IF resp.error = "expired_token"
         THEN [tag |-> "throw", error |-> Thrown("expired_token", ""), token |-> NoToken]
         ELSE [tag |-> "null", error |-> NoResult, token |-> NoToken]
    ELSE [tag |-> "throw", error |-> Thrown("Token request failed", StatusText(resp.status)),
          token |-> NoToken]

requestDeviceToken(resp) ==
    IF resp.status = 200
    THEN IF resp.access_token # "" /\ resp.refresh_token # ""
         THEN [tag |-> "token", error |-> NoResult,
               token |-> [access_token |-> resp.access_token,
                          refresh_token |-> resp.refresh_token,
                          expires_in |-> resp.expires_in]]
         ELSE [tag |-> "throw", error |-> Thrown("Token response missing required fields", ""),
               token |-> NoToken]
    ELSE IF resp.status = 400
    THEN IF resp.error = "authorization_pending"
         THEN [tag |-> "null", error |-> NoResult, token |-> NoToken]
         ELSE IF resp.error = "expired_token"
         THEN [tag |-> "throw", error |-> Thrown("expired_token", ""), token |-> NoToken]
         ELSE [tag |-> "throw",
               error |-> Thrown("Token request failed",
                                IF resp.error # "" THEN resp.error ELSE "unknown"),
               token |-> NoToken]
    ELSE [tag |-> "throw", error |-> Thrown("Token request failed", StatusText(resp.status)),
          token |-> NoToken]

\* 403 left out of the test of line 178.
refreshAccessToken_403Generic(resp) ==
    IF ~ResponseOk(resp.status)
    THEN IF resp.status = 401
         THEN [tag |-> "throw", error |-> Thrown("Token refresh unauthorized", ""),
               token |-> NoToken]
         ELSE [tag |-> "throw", error |-> Thrown("Token refresh failed", StatusText(resp.status)),
               token |-> NoToken]
    ELSE IF resp.access_token = "" \/ resp.refresh_token = ""
    THEN [tag |-> "throw", error |-> Thrown("Token refresh response missing required fields", ""),
          token |-> NoToken]
    ELSE [tag |-> "token", error |-> NoResult,
          token |-> [access_token |-> resp.access_token, refresh_token |-> resp.refresh_token,
                     expires_in |-> resp.expires_in]]

refreshAccessToken(resp) ==
    IF ~ResponseOk(resp.status)
    THEN IF resp.status = 401 \/ resp.status = 403
         THEN [tag |-> "throw", error |-> Thrown("Token refresh unauthorized", ""),
               token |-> NoToken]
         ELSE [tag |-> "throw", error |-> Thrown("Token refresh failed", StatusText(resp.status)),
               token |-> NoToken]
    ELSE IF resp.access_token = "" \/ resp.refresh_token = ""
    THEN [tag |-> "throw", error |-> Thrown("Token refresh response missing required fields", ""),
          token |-> NoToken]
    ELSE [tag |-> "token", error |-> NoResult,
          token |-> [access_token |-> resp.access_token, refresh_token |-> resp.refresh_token,
                     expires_in |-> resp.expires_in]]

\* ------------------------------------------------------------------------
\* loginKimiCode: the pieces of its body
\* ------------------------------------------------------------------------

\* The instructions carry the device code in place of the user code.
OnAuthArgs_DeviceCode(a) ==
    [url |-> a.verification_uri_complete,
     instructions |-> <<"Please visit the URL to authorize. Your code: ", a.device_code>>]

\* The argument of callbacks.onAuth; the instructions are the template's text
\* followed by the user code.
OnAuthArgs(a) ==
    [url |-> a.verification_uri_complete,
     instructions |-> <<"Please visit the URL to authorize. Your code: ", a.user_code>>]

\* const interval = Math.max(auth.interval, 1) * 1000
PollInterval(a) == Max(a.interval, 1) * 1000

\* const expiresAt = Date.now() + auth.expires_in * 1000
Deadline(t, a) == t + a.expires_in * 1000

\* <= in place of < at line 212.
WhileTest_Inclusive(t, exp) == t <= exp

\* while (Date.now() < expiresAt)
WhileTest(t, exp) == t < exp

\* The catch of line 217 goes on polling the expired code instead of breaking.
PollOutcome_KeepsPollingOnExpiry(res, sig) ==
    IF res.tag = "token" THEN "token"
    ELSE IF res.tag = "throw"
    THEN IF res.error.message = "expired_token" /\ res.error.detail = ""
         THEN IF sig THEN "abort" ELSE "sleep"
         ELSE "throw"
    ELSE IF sig THEN "abort"
    ELSE "sleep"

\* The catch of line 217 without the test of the message: every error restarts.
PollOutcome_AnyErrorRestarts(res, sig) ==
    IF res.tag = "token" THEN "token"
    ELSE IF res.tag = "throw" THEN "expired"
    ELSE IF sig THEN "abort"
    ELSE "sleep"

\* The catch of line 217 rethrows the expired-code error like any other.
PollOutcome_SurfacesExpiry(res, sig) ==
    IF res.tag = "token" THEN "token"
    ELSE IF res.tag = "throw" THEN "throw"
    ELSE IF sig THEN "abort"
    ELSE "sleep"

\* One pass of the loop body after the token request has answered:
\* "token" and "expired" break out of the loop, "throw" rethrows the error,
\* "abort" throws the abort error, "sleep" goes on to the setTimeout.
PollOutcome(res, sig) ==
    IF res.tag = "token" THEN "token"
    ELSE IF res.tag = "throw"
    THEN IF res.error.message = "expired_token" /\ res.error.detail = ""
         THEN "expired"
         ELSE "throw"
    ELSE IF sig THEN "abort"
    ELSE "sleep"

\* printedWaiting left out of the test of line 227: every pending answer is announced.
FirstPending_Always(res, printed) == res.tag = "null"

\* if (!printedWaiting), reached only when requestDeviceToken returned null.
FirstPending(res, printed) == res.tag = "null" /\ ~printed

\* Date.now() left out of line 246.
loginCredentials_NoClock(tok, t) ==
    Returned(tok.access_token, tok.refresh_token, tok.expires_in * 1000)

loginCredentials(tok, t) ==
    Returned(tok.access_token, tok.refresh_token, t + tok.expires_in * 1000)

\* The factor 1000 left out of line 259.
refreshCredentials_Seconds(tok, t) ==
    Returned(tok.access_token, tok.refresh_token, t + tok.expires_in)

refreshCredentials(tok, t) ==
    Returned(tok.access_token, tok.refresh_token, t + tok.expires_in * 1000)

\* ------------------------------------------------------------------------
\* History
\* ------------------------------------------------------------------------

NoTokenResp == [status |-> 0, error |-> "", access_token |-> "", refresh_token |-> "",
                expires_in |-> 0]

NoAuthResp == [status |-> 0, user_code |-> "", device_code |-> "",
               verification_uri_complete |-> "", expires_in |-> 0, has_expires_in |-> FALSE,
               interval |-> 0, has_interval |-> FALSE]

NoShown == [url |-> "", instructions |-> <<"", "">>]

\* What the login has done since its latest response arrived.
Nothing == [authReq |-> FALSE, tokenReq |-> FALSE, sleep |-> FALSE, onAuth |-> FALSE,
            waiting |-> FALSE, expiry |-> FALSE]

InitHistory ==
    [authReqs |-> 0,         \* device-authorization requests issued (up to MaxCount)
     polls |-> 0,            \* token requests issued since the latest device authorization
     sleeps |-> 0,           \* sleeps started since the latest device authorization
     pendings |-> 0,         \* authorization_pending answers since then
     waitings |-> 0,         \* waiting notices given to onProgress since then
     waitedEarlier |-> FALSE,    \* an earlier device authorization had its waiting notice
     onAuths |-> 0,          \* onAuth calls since the latest device-authorization response
     shown |-> NoShown,      \* the argument of the latest onAuth call
     reqShown |-> NoShown,   \* the same, as it stood when the latest token request left
     lastHttp |-> "none",    \* the login's latest request: none, auth, token
     reqCode |-> "",         \* device_code carried by the latest token request
     authCause |-> "none",   \* why the latest device authorization was requested: call, expiry, deadline
     srvAuth |-> NoAuthResp, \* the latest device-authorization response accepted
     authorizedAt |-> 0,     \* the clock when it arrived
     stale |-> {},           \* device codes answered expired_token, not issued again since
     answered |-> "none",    \* the login's latest response: none, auth, token
     authResp |-> NoAuthResp,    \* the latest device-authorization response
     tokenResp |-> NoTokenResp,  \* the latest token-exchange response
     answeredAt |-> 0,       \* the clock when the latest response arrived
     after |-> Nothing,      \* what the login has done since
     gapPrev |-> "none",     \* the request before the latest token request
     gapSleeps |-> 0,        \* sleeps between that request and the latest token request
     gapMs |-> 0,            \* the length asked of the latest of those sleeps
     sleepsSince |-> 0,      \* sleeps since the latest request
     sleepMs |-> 0,          \* the length asked of the latest sleep
     abortAt |-> "none",     \* where the login stood when the signal was set
     pollAfterAbort |-> FALSE,   \* a token request was issued with the signal set
     authAfterAbort |-> FALSE,   \* a device authorization was requested with the signal set
     sentIds |-> {},         \* the X-Msh-Device-Id values sent so far, by either call
     refreshReqs |-> 0,      \* token-endpoint requests issued by the refresh
     refreshArg |-> NoCredentials,  \* the credentials the refresh was called with
     refreshResp |-> NoTokenResp,  \* the response the refresh got
     refreshAt |-> 0]        \* the clock when it arrived

\* fetch(.../api/oauth/device_authorization) leaves the process.
IssueAuth(hh, sig) ==
    [hh EXCEPT !.authReqs = Inc(@), !.lastHttp = "auth", !.sleepsSince = 0,
               !.after.authReq = TRUE,
               !.authAfterAbort = @ \/ sig]

\* fetch(.../api/oauth/token) with device_code = code leaves the process.
IssueToken(hh, code, sig) ==
    [hh EXCEPT !.polls = @ + 1, !.lastHttp = "token", !.reqCode = code,
               !.reqShown = hh.shown,
               !.gapPrev = hh.lastHttp, !.gapSleeps = hh.sleepsSince, !.gapMs = hh.sleepMs,
               !.sleepsSince = 0,
               !.after.tokenReq = TRUE,
               !.pollAfterAbort = @ \/ sig]

\* The top of the inner loop: poll again, or fall out of it with no token and
\* go round the outer loop to a new device authorization.
NextRequest(hh, t, exp, code, sig) ==
    IF WhileTest(t, exp)
    THEN IssueToken(hh, code, sig)
    ELSE [IssueAuth(hh, sig) EXCEPT !.authCause = "deadline"]

NextPc(t, exp) == IF WhileTest(t, exp) THEN "tokenWait" ELSE "authWait"

\* getCommonHeaders() has put X-Msh-Device-Id: id on a request.
Sent(hh, id) == [hh EXCEPT !.sentIds = @ \cup {id}]

\* ------------------------------------------------------------------------
\* The state after construction
\* ------------------------------------------------------------------------

Init ==
    /\ now = 0
    /\ aborted = FALSE
    /\ hasProgress \in BOOLEAN
    /\ DEVICE_ID = ""
    /\ pc = "idle"
    /\ auth = NoAuth
    /\ interval = 0
    /\ expiresAt = 0
    /\ token = NoToken
    /\ printedWaiting = FALSE
    /\ result = NoResult
    /\ rpc = "idle"
    /\ credentials = NoCredentials
    /\ rresult = NoResult
    /\ h = InitHistory

loginVars == <<pc, auth, interval, expiresAt, token, printedWaiting, result>>

refreshVars == <<rpc, rresult>>

\* ------------------------------------------------------------------------
\* loginKimiCode
\* ------------------------------------------------------------------------

\* The host calls loginKimiCode: the first requestDeviceAuthorization goes out.
StartLogin ==
    /\ pc = "idle"
    /\ DEVICE_ID' \in getStableDeviceId(DEVICE_ID)
    /\ h' = Sent([IssueAuth(h, aborted) EXCEPT !.authCause = "call"], DEVICE_ID')
    /\ pc' = "authWait"
    /\ UNCHANGED <<now, aborted, hasProgress, auth, interval, expiresAt, token,
                   printedWaiting, result, rpc, credentials, rresult>>

\* One host call at a time: no refresh is under way.
LoginCall == rpc = "idle" /\ StartLogin

\* requestDeviceAuthorization answers; on success onAuth is called, the
\* deadline is set and the inner loop is entered.
AuthResponseOf(responses) ==
    /\ pc = "authWait"
    /\ \E resp \in responses, d \in Elapsed :
         LET t == now + d
             r == requestDeviceAuthorization(resp)
             a == r.auth
             exp == Deadline(t, a)
             h0 == [h EXCEPT !.answered = "auth", !.authResp = resp, !.answeredAt = t,
                             !.after = Nothing, !.onAuths = 0]
             h1 == [h0 EXCEPT !.srvAuth = resp, !.authorizedAt = t, !.after.onAuth = TRUE,
                              !.onAuths = @ + 1, !.shown = OnAuthArgs(a),
                              !.polls = 0, !.sleeps = 0, !.pendings = 0,
                              !.waitings = 0, !.waitedEarlier = @ \/ h.waitings > 0,
                              !.stale = @ \ {resp.device_code}]
         IN
         /\ t <= MaxClock
         /\ now' = t
         /\ IF r.tag = "throw"
            THEN /\ pc' = "failed"
                 /\ result' = r.error
                 /\ h' = h0
                 /\ UNCHANGED <<DEVICE_ID, auth, interval, expiresAt, token, printedWaiting>>
            ELSE /\ auth' = a
                 /\ interval' = PollInterval(a)
                 /\ expiresAt' = exp
                 /\ token' = NoToken
                 /\ printedWaiting' = FALSE
                 /\ pc' = NextPc(t, exp)
                 /\ DEVICE_ID' \in getStableDeviceId(DEVICE_ID)
                 /\ h' = Sent(NextRequest(h1, t, exp, a.device_code, aborted), DEVICE_ID')
                 /\ UNCHANGED result
    /\ UNCHANGED <<aborted, hasProgress, rpc, credentials, rresult>>

AuthResponse == AuthResponseOf(AuthResponses)

\* requestDeviceToken answers; the rest of the loop body runs up to the next
\* await (the sleep, the next device authorization) or to the end of the call.
TokenResponseOf(responses) ==
    /\ pc = "tokenWait"
    /\ \E resp \in responses, d \in Elapsed :
         LET t == now + d
             res == requestDeviceToken(resp)
             out == PollOutcome(res, aborted)
             first == FirstPending(res, printedWaiting)
             h0 == [h EXCEPT !.answered = "token", !.tokenResp = resp, !.answeredAt = t,
                             !.after = Nothing,
                             !.pendings = IF resp.status = 400
                                             /\ resp.error = "authorization_pending"
                                          THEN @ + 1 ELSE @,
                             !.stale = IF resp.status = 400 /\ resp.error = "expired_token"
                                       THEN @ \cup {h.reqCode} ELSE @]
             h1 == [h0 EXCEPT !.after.waiting = first /\ hasProgress,
                              !.waitings = IF first /\ hasProgress THEN @ + 1 ELSE @]
         IN
         /\ t <= MaxClock
         /\ now' = t
         /\ printedWaiting' = (printedWaiting \/ res.tag = "null")
         /\ CASE out = "token" ->
                   /\ token' = res.token
                   /\ pc' = "done"
                   /\ result' = loginCredentials(res.token, t)
                   /\ h' = h0
                   /\ UNCHANGED DEVICE_ID
              [] out = "expired" ->
                   /\ pc' = "authWait"
                   /\ DEVICE_ID' \in getStableDeviceId(DEVICE_ID)
                   /\ h' = Sent([IssueAuth([h0 EXCEPT !.after.expiry = hasProgress], aborted)
                                    EXCEPT !.authCause = "expiry"], DEVICE_ID')
                   /\ UNCHANGED <<token, result>>
              [] out = "throw" ->
                   /\ pc' = "failed"
                   /\ result' = res.error
                   /\ h' = h0
                   /\ UNCHANGED <<DEVICE_ID, token>>
              [] out = "abort" ->
                   /\ pc' = "failed"
                   /\ result' = Thrown("Authorization aborted", "")
                   /\ h' = h1
                   /\ UNCHANGED <<DEVICE_ID, token>>
              [] out = "sleep" ->
                   /\ pc' = "sleeping"
                   /\ h' = [h1 EXCEPT !.sleeps = @ + 1, !.sleepsSince = @ + 1,
                                      !.sleepMs = interval, !.after.sleep = TRUE]
                   /\ UNCHANGED <<DEVICE_ID, token, result>>
    /\ UNCHANGED <<aborted, hasProgress, auth, interval, expiresAt,
                   rpc, credentials, rresult>>

TokenResponse == TokenResponseOf(TokenResponses)

\* The setTimeout fires; the loop condition is tested again.
SleepDone ==
    /\ pc = "sleeping"
    /\ now + interval <= MaxClock
    /\ now' = now + interval
    /\ pc' = NextPc(now', expiresAt)
    /\ DEVICE_ID' \in getStableDeviceId(DEVICE_ID)
    /\ h' = Sent(NextRequest(h, now', expiresAt, auth.device_code, aborted), DEVICE_ID')
    /\ UNCHANGED <<aborted, hasProgress, auth, interval, expiresAt, token,
                   printedWaiting, result, rpc, credentials, rresult>>

\* The host sets the cancellation signal; it stays set.
Abort ==
    /\ ~aborted
    /\ rpc = "idle"
    /\ pc \notin {"done", "failed"}
    /\ aborted' = TRUE
    /\ h' = [h EXCEPT !.abortAt = pc]
    /\ UNCHANGED <<now, hasProgress, DEVICE_ID, loginVars, rpc, credentials, rresult>>

\* ------------------------------------------------------------------------
\* refreshKimiCodeToken
\* ------------------------------------------------------------------------

\* The host calls refreshKimiCodeToken(credentials): the request goes out.
StartRefresh ==
    /\ rpc = "idle"
    /\ DEVICE_ID' \in getStableDeviceId(DEVICE_ID)
    /\ \E c \in StoredCredentials :
         /\ credentials' = c
         /\ h' = Sent([h EXCEPT !.refreshReqs = @ + 1, !.refreshArg = c], DEVICE_ID')
    /\ rpc' = "wait"
    /\ UNCHANGED <<now, aborted, hasProgress, loginVars, rresult>>

\* One host call at a time: no login has been called.
RefreshCall == pc = "idle" /\ StartRefresh

\* refreshAccessToken answers and the call ends.
RefreshResponseOf(responses) ==
    /\ rpc = "wait"
    /\ \E resp \in responses, d \in Elapsed :
         LET t == now + d
             res == refreshAccessToken(resp)
         IN
         /\ t <= MaxClock
         /\ now' = t
         /\ h' = [h EXCEPT !.refreshResp = resp, !.refreshAt = t]
         /\ IF res.tag = "throw"
            THEN rpc' = "failed" /\ rresult' = res.error
            ELSE rpc' = "done" /\ rresult' = refreshCredentials(res.token, t)
    /\ UNCHANGED <<aborted, hasProgress, DEVICE_ID, loginVars, credentials>>

RefreshResponse == RefreshResponseOf(TokenResponses)

Next ==
    \/ LoginCall
    \/ AuthResponse
    \/ TokenResponse
    \/ SleepDone
    \/ Abort
    \/ RefreshCall
    \/ RefreshResponse

Spec == Init /\ [][Next]_vars

\* Every request is answered and every sleep ends; the host need not cancel.
LoginStep == AuthResponse \/ TokenResponse \/ SleepDone \/ LoginCall

LiveSpec == Init /\ [][Next]_vars /\ WF_vars(LoginStep)

\* ------------------------------------------------------------------------
\* A login and a refresh under way in one process at the same time
\* ------------------------------------------------------------------------

\* The answers that matter to which requests are sent, out of AuthResponses
\* and TokenResponses.
FewAuthResponses ==
    {AuthBody(200, UserCodeOf(dc), dc, UrlOf(dc), 0, 2) : dc \in DeviceCodes}
    \cup {AuthBody(500, "", "", "", 0, 0)}

FewTokenResponses ==
    {TokenBody(200, "", "at1", "rt1", 3600), TokenBody(400, "authorization_pending", "", "", 0),
     TokenBody(400, "expired_token", "", "", 0), TokenBody(500, "", "", "", 0)}

\* The two calls interleave at their awaits: each step below runs from one
\* await of one call to its next, whatever the other call is doing.
ConcurrentNext ==
    \/ StartLogin
    \/ AuthResponseOf(FewAuthResponses)
    \/ TokenResponseOf(FewTokenResponses)
    \/ SleepDone
    \/ StartRefresh
    \/ RefreshResponseOf(FewTokenResponses)

ConcurrentSpec == Init /\ [][ConcurrentNext]_vars

\* ------------------------------------------------------------------------
\* What the server said, read off the response alone
\* ------------------------------------------------------------------------

SaidPending(r) == r.status = 400 /\ r.error = "authorization_pending"

SaidExpired(r) == r.status = 400 /\ r.error = "expired_token"

SaidToken(r) == r.status = 200 /\ r.access_token # "" /\ r.refresh_token # ""

SaidFatal(r) == ~SaidPending(r) /\ ~SaidExpired(r) /\ ~SaidToken(r)

SaidAuthorized(r) ==
    /\ ResponseOk(r.status)
    /\ r.user_code # "" /\ r.device_code # "" /\ r.verification_uri_complete # ""

LoginEnded == pc \in {"done", "failed"}

RefreshEnded == rpc \in {"done", "failed"}

AbortError == Thrown("Authorization aborted", "")

\* The sleep in progress would pass the end of the modelled time.
Horizon == pc = "sleeping" /\ now + interval > MaxClock

\* ------------------------------------------------------------------------
\* Claims
\* ------------------------------------------------------------------------

\* C1: if the cancellation signal is set between two token-exchange attempts
\* (during the poll-interval sleep), the login fails with "Authorization
\* aborted" and issues no token-exchange request after the signal was set.
C1_NoPollAfterCancelBetweenAttempts ==
    h.abortAt = "sleeping" =>
        /\ ~h.pollAfterAbort
        /\ pc # "done"
        /\ pc = "failed" => result = AbortError

\* C2: after an expired_token answer for device code d the next request is a
\* new device authorization, and every token-exchange request carries the
\* device code of the most recent device authorization, never a code that
\* has expired since it was issued, however many restarts there have been.
C2_ExpiredCodeIsReplaced ==
    /\ (h.answered = "token" /\ SaidExpired(h.tokenResp)) =>
          /\ pc = "authWait"
          /\ h.lastHttp = "auth"
          /\ h.after.authReq /\ ~h.after.tokenReq /\ ~h.after.sleep
    /\ pc = "tokenWait" =>
          /\ h.reqCode = h.srvAuth.device_code
          /\ h.reqCode \notin h.stale

\* C2 witness: after a restart forced by expired_token, a token-exchange
\* request for the new device code is in flight.
C2_Witness ==
    /\ pc = "tokenWait"
    /\ h.stale # {}
    /\ h.authReqs = MaxCount
    /\ h.reqCode \notin h.stale

\* The server's latest device authorization reported a negative lifetime.
NegativeLifetime == h.authResp.expires_in < 0

\* C3: once the cancellation signal is set, the login eventually ends, for
\* every behaviour of the server (here: within the modelled time, and for
\* the servers that report no negative expires_in), a server that answers
\* every token-exchange attempt with expired_token included.
C3_CancelEndsLogin ==
    (aborted /\ pc \in {"authWait", "tokenWait", "sleeping"})
        ~> (LoginEnded \/ Horizon \/ NegativeLifetime)

\* C4: an authorization_pending answer never ends the login with an error,
\* and between two consecutive token-exchange requests for one device code
\* the login sleeps exactly once, for max(interval, 1) seconds.
C4_PendingSleepsOnce ==
    /\ (h.answered = "token" /\ SaidPending(h.tokenResp)) => pc # "failed"
    /\ (h.lastHttp = "token" /\ h.gapPrev = "token") =>
          /\ h.gapSleeps = 1
          /\ h.gapMs = Max(IF h.srvAuth.interval = 0 THEN 5 ELSE h.srvAuth.interval, 1) * 1000

\* C4, the part the code keeps: a pending answer is followed by the sleep
\* unless the signal is set, and consecutive polls are one sleep apart.
C4_PendingSleepsOnceUnlessCancelled ==
    /\ (h.answered = "token" /\ SaidPending(h.tokenResp) /\ pc = "failed") =>
          (aborted /\ result = AbortError)
    /\ (h.lastHttp = "token" /\ h.gapPrev = "token") =>
          /\ h.gapSleeps = 1
          /\ h.gapMs = Max(IF h.srvAuth.interval = 0 THEN 5 ELSE h.srvAuth.interval, 1) * 1000

\* C5: one device authorization, then k pending answers, then a token: the
\* login returns credentials built from that token after exactly one
\* device-authorization request, k+1 token-exchange requests and k sleeps;
\* it returns credentials only after a 200 answer with both tokens.
C5_PendingThenToken ==
    /\ (h.answered = "token" /\ SaidToken(h.tokenResp)) =>
          /\ pc = "done"
          /\ result.kind = "creds"
          /\ result.access = h.tokenResp.access_token
          /\ result.refresh = h.tokenResp.refresh_token
    /\ pc = "done" =>
          /\ h.answered = "token" /\ SaidToken(h.tokenResp)
          /\ result.kind = "creds"
    /\ result.kind = "creds" => pc = "done"
    /\ (pc = "done" /\ h.authReqs = 1) =>
          /\ h.polls = h.pendings + 1
          /\ h.sleeps = h.pendings

\* C5 witness: credentials returned after two pending answers and no restart.
C5_Witness ==
    /\ pc = "done"
    /\ h.authReqs = 1
    /\ h.pendings = 2
    /\ h.polls = 3

\* C6: a token-exchange answer other than a token, authorization_pending or
\* expired_token fails the login at once with that error: no request, no
\* sleep and no progress callback follow it.
C6_FatalPollFailsAtOnce ==
    (h.answered = "token" /\ SaidFatal(h.tokenResp)) =>
        /\ pc = "failed"
        /\ result.kind = "error"
        /\ result.message \in {"Token request failed", "Token response missing required fields"}
        /\ (h.tokenResp.status = 400 /\ h.tokenResp.error # "") =>
              result = Thrown("Token request failed", h.tokenResp.error)
        /\ h.after = Nothing

\* C6 witness: access_denied arrives after the login has already slept once.
C6_Witness ==
    /\ h.answered = "token"
    /\ h.tokenResp.status = 400 /\ h.tokenResp.error = "access_denied"
    /\ h.sleeps >= 1
    /\ pc = "failed"

\* C7: a failed device authorization (non-success status or a missing
\* user_code, device_code or verification_uri_complete), first or on a
\* restart, fails the login at once: no retry, no onAuth, no token request.
C7_FailedAuthorizationFailsAtOnce ==
    (h.answered = "auth" /\ ~SaidAuthorized(h.authResp)) =>
        /\ pc = "failed"
        /\ result.kind = "error"
        /\ result.message = IF ResponseOk(h.authResp.status)
                            THEN "Invalid device authorization response"
                            ELSE "Device authorization failed"
        /\ h.after = Nothing

\* C7 witness: the device authorization of a restart lacks the device code.
C7_Witness ==
    /\ h.answered = "auth"
    /\ h.authResp.status = 200 /\ h.authResp.device_code = ""
    /\ h.authReqs >= 2
    /\ pc = "failed"

\* C8: a refresh issues exactly one request and ends when it is answered:
\* 401 and 403 give the unauthorized error, any other failure a generic
\* refresh error, a complete success response credentials; the credentials
\* passed in are not modified.
C8_RefreshOnce ==
    /\ h.refreshReqs <= 1
    /\ rpc # "idle" => (h.refreshReqs = 1 /\ credentials = h.refreshArg)
    /\ rpc = "wait" => h.refreshResp = NoTokenResp
    /\ RefreshEnded =>
          LET r == h.refreshResp IN
          /\ r # NoTokenResp
          /\ r.status \in {401, 403} =>
                (rpc = "failed" /\ rresult.message = "Token refresh unauthorized")
          /\ (~ResponseOk(r.status) /\ r.status \notin {401, 403}) =>
                (rpc = "failed" /\ rresult.message = "Token refresh failed")
          /\ (ResponseOk(r.status) /\ (r.access_token = "" \/ r.refresh_token = "")) =>
                (rpc = "failed"
                 /\ rresult.message = "Token refresh response missing required fields")
          /\ (ResponseOk(r.status) /\ r.access_token # "" /\ r.refresh_token # "") =>
                (rpc = "done" /\ rresult.kind = "creds")
          /\ rpc = "failed" <=> rresult.kind = "error"

\* C8 witness: a refresh answered 403 has failed as unauthorized.
C8_Witness ==
    /\ rpc = "failed"
    /\ h.refreshResp.status = 403
    /\ rresult.message = "Token refresh unauthorized"

\* C9: credentials returned by the login or the refresh expire strictly
\* after the clock at their construction, for every expires_in >= 0.
C9_ExpiresInFuture ==
    /\ (pc = "done" /\ h.tokenResp.expires_in >= 0) => result.expires > h.answeredAt
    /\ (rpc = "done" /\ h.refreshResp.expires_in >= 0) => rresult.expires > h.refreshAt

\* C9 as amended: for every expires_in >= 0 the credentials do not expire
\* before the clock at their construction, and for every expires_in > 0
\* they expire strictly after it.
C9_ExpiresNotInPast ==
    /\ (pc = "done" /\ h.tokenResp.expires_in >= 0) => result.expires >= h.answeredAt
    /\ (pc = "done" /\ h.tokenResp.expires_in > 0) => result.expires > h.answeredAt
    /\ (rpc = "done" /\ h.refreshResp.expires_in >= 0) => rresult.expires >= h.refreshAt
    /\ (rpc = "done" /\ h.refreshResp.expires_in > 0) => rresult.expires > h.refreshAt

\* C9 witness: a login returned credentials for expires_in = 0 with the
\* clock past zero.
C9_Witness ==
    /\ pc = "done"
    /\ h.tokenResp.expires_in = 0
    /\ h.answeredAt > 0

\* C10: a token response (a, r, e) received at clock T gives exactly the
\* credentials {access: a, refresh: r, expires: T + e*1000}, from the login
\* and from the refresh.
C10_CredentialsFromToken ==
    /\ pc = "done" =>
          result = Returned(h.tokenResp.access_token, h.tokenResp.refresh_token,
                            h.answeredAt + h.tokenResp.expires_in * 1000)
    /\ rpc = "done" =>
          rresult = Returned(h.refreshResp.access_token, h.refreshResp.refresh_token,
                             h.refreshAt + h.refreshResp.expires_in * 1000)

\* C10 witness: a refresh answered at a clock past zero with expires_in 3600.
C10_Witness ==
    /\ rpc = "done"
    /\ h.refreshAt > 0
    /\ h.refreshResp.expires_in = 3600
    /\ rresult.expires = h.refreshAt + 3600000

\* C11: a valid device-authorization response that omits expires_in gives
\* the deadline authorization time + 1800 s, and one that omits interval
\* gives sleeps of 5 s; a supplied field is used as supplied, the interval
\* raised to at least 1 s.
C11_DefaultsOnlyWhenOmitted ==
    LET r == h.srvAuth
        E == IF r.has_expires_in THEN r.expires_in ELSE 1800
        I == IF r.has_interval THEN Max(r.interval, 1) ELSE 5
    IN  /\ SaidAuthorized(r) => expiresAt = h.authorizedAt + E * 1000
        /\ (SaidAuthorized(r) /\ pc = "sleeping") => h.sleepMs = I * 1000

\* C11 failing input reached: the server supplied expires_in = 0 and
\* interval = 0 and the login sleeps after a pending answer.
C11_SuppliedZero ==
    /\ pc = "sleeping"
    /\ h.srvAuth.has_expires_in /\ h.srvAuth.expires_in = 0
    /\ h.srvAuth.has_interval /\ h.srvAuth.interval = 0

\* C11, the part the code keeps: a field left out or sent as 0 gives the
\* default, any other supplied value is used.
C11_DefaultsWhenOmittedOrZero ==
    LET r == h.srvAuth
        E == IF r.has_expires_in /\ r.expires_in # 0 THEN r.expires_in ELSE 1800
        I == IF r.has_interval /\ r.interval # 0 THEN Max(r.interval, 1) ELSE 5
    IN  /\ SaidAuthorized(r) => expiresAt = h.authorizedAt + E * 1000
        /\ (SaidAuthorized(r) /\ pc = "sleeping") => h.sleepMs = I * 1000

\* C12: a polling iteration that begins with the cancellation signal set
\* fails with the abort error before it calls the token endpoint: no token
\* request is issued with the signal set, and a login whose signal was set
\* before a token request went out never returns credentials.
C12_AbortTestedBeforePoll ==
    /\ ~h.pollAfterAbort
    /\ h.abortAt \in {"idle", "authWait", "sleeping"} => pc # "done"

\* C13: a token-exchange attempt is one request, and its answer decides the
\* outcome: 200 with both tokens gives the token; 200 without one gives the
\* missing-fields error; 400 authorization_pending gives no error of the
\* attempt; 400 expired_token gives the restart; 400 with another error and
\* every other status give a 'Token request failed' error.  Only 400
\* expired_token makes the login restart straight after an answer.
C13_TokenAnswerClassified ==
    LET r == h.tokenResp
        restarted == h.after.authReq /\ ~h.after.sleep
    IN  /\ pc = "tokenWait" => h.polls = h.sleeps + 1
        /\ h.answered = "token" =>
              /\ SaidToken(r) =>
                    /\ pc = "done"
                    /\ result.kind = "creds" /\ result.access = r.access_token
              /\ (r.status = 200 /\ ~SaidToken(r)) =>
                    /\ pc = "failed"
                    /\ result = Thrown("Token response missing required fields", "")
              /\ SaidPending(r) =>
                    /\ pc # "done"
                    /\ pc = "failed" => result = AbortError
                    /\ ~restarted
              /\ SaidExpired(r) => (pc = "authWait" /\ restarted)
              /\ (r.status = 400 /\ ~SaidPending(r) /\ ~SaidExpired(r)) =>
                    /\ pc = "failed"
                    /\ result = Thrown("Token request failed",
                                       IF r.error # "" THEN r.error ELSE "unknown")
              /\ r.status \notin {200, 400} =>
                    /\ pc = "failed"
                    /\ result = Thrown("Token request failed", StatusText(r.status))
              /\ restarted => SaidExpired(r)

\* C13 witness: a 400 with an error code other than the two known ones
\* ended the login after an earlier attempt of the same authorization had
\* been answered pending.
C13_Witness ==
    /\ h.answered = "token"
    /\ h.tokenResp.status = 400 /\ h.tokenResp.error = "access_denied"
    /\ h.polls = 2 /\ h.pendings = 1
    /\ pc = "failed"

\* C14: within one device-authorization attempt the progress callback gets
\* the waiting notice at most once, at the first authorization_pending
\* answer of the attempt and at no later one; the count starts again with
\* each new device authorization.
C14_WaitingNoticeOncePerAttempt ==
    /\ h.waitings <= 1
    /\ SaidAuthorized(h.srvAuth) =>
          h.waitings = IF hasProgress /\ h.pendings >= 1 THEN 1 ELSE 0
    /\ (h.answered = "token" /\ SaidPending(h.tokenResp)) =>
          h.after.waiting = (hasProgress /\ h.pendings = 1)
    /\ (h.answered = "token" /\ ~SaidPending(h.tokenResp)) => ~h.after.waiting

\* C14 witness: a second pending answer of an attempt that came after a
\* restart, both attempts having had their waiting notice.
C14_Witness ==
    /\ h.answered = "token" /\ SaidPending(h.tokenResp)
    /\ h.pendings = 2
    /\ h.waitings = 1
    /\ h.waitedEarlier
    /\ pc = "sleeping"

\* C15: the expired-device-code error never reaches the caller.  An
\* expired_token answer is followed by the expiry notice (once, when a
\* progress callback exists) and a new device-authorization request, with no
\* sleep, token request or other callback in between; every error the login
\* raises is the abort error, a failed or malformed device authorization, a
\* malformed token response or a server error other than expired_token.
C15_ExpiryNeverSurfaced ==
    /\ (h.answered = "token" /\ SaidExpired(h.tokenResp)) =>
          /\ pc = "authWait"
          /\ h.after = [Nothing EXCEPT !.authReq = TRUE, !.expiry = hasProgress]
    /\ h.after.expiry => (h.answered = "token" /\ SaidExpired(h.tokenResp))
    /\ pc = "failed" =>
          /\ result.kind = "error"
          /\ result.message # "expired_token"
          /\ result.message \in {"Authorization aborted", "Device authorization failed",
                                 "Invalid device authorization response",
                                 "Token response missing required fields",
                                 "Token request failed"}
          /\ result.message = "Token request failed" =>
                (h.answered = "token" /\ SaidFatal(h.tokenResp))
    /\ pc = "done" => result.kind = "creds"

\* C15 witness: an expired_token answer arrived after a pending one and the
\* login, with a progress callback, waits for the new device authorization.
C15_Witness ==
    /\ h.answered = "token" /\ SaidExpired(h.tokenResp)
    /\ hasProgress /\ h.after.expiry
    /\ h.pendings = 1
    /\ h.authReqs = 2
    /\ pc = "authWait"

\* C16: onAuth is called exactly once for each successful device
\* authorization and never otherwise, with that authorization's
\* verification_uri_complete and instructions that carry its user_code;
\* every token request carries the device code of an authorization that had
\* been presented to the host when the request left.
C16_PresentedBeforePolled ==
    /\ h.onAuths = IF SaidAuthorized(h.authResp) THEN 1 ELSE 0
    /\ h.answered = "auth" => h.after.onAuth = SaidAuthorized(h.authResp)
    /\ h.answered = "token" => ~h.after.onAuth
    /\ SaidAuthorized(h.authResp) =>
          /\ h.shown.url = h.authResp.verification_uri_complete
          /\ h.shown.instructions[2] = h.authResp.user_code
    /\ h.lastHttp = "token" =>
          /\ h.reqCode = h.srvAuth.device_code
          /\ h.reqShown.url = UrlOf(h.reqCode)
          /\ h.reqShown.instructions[2] = UserCodeOf(h.reqCode)

\* C16 witness: after a restart the login polls the second device code,
\* which differs from the first, and the host has been shown its user code.
C16_Witness ==
    /\ pc = "tokenWait"
    /\ h.reqCode = "dc2"
    /\ h.stale = {"dc1"}
    /\ h.reqShown.instructions[2] = "WXYZ-5678"
    /\ h.onAuths = 1

\* The deadline the login keeps for the latest accepted device
\* authorization: its arrival + expires_in seconds, expires_in being the
\* value requestDeviceAuthorization returned.
C17_Deadline ==
    h.authorizedAt
      + (IF h.srvAuth.expires_in = 0 THEN 1800 ELSE h.srvAuth.expires_in) * 1000

\* C17: no token request leaves at or after the deadline of its device code
\* (the clock stands still from a request's leaving to its answer's arrival);
\* when a sleep ends, or the device authorization arrives, at or after the
\* deadline the login requests a new device authorization instead of
\* failing; a token answer is accepted whenever it arrives.
C17_NoPollPastDeadline ==
    /\ pc = "tokenWait" => now < C17_Deadline
    /\ (h.answered = "token" /\ SaidPending(h.tokenResp) /\ h.after.sleep /\ pc # "sleeping") =>
          IF now < C17_Deadline
          THEN pc = "tokenWait" /\ h.after.tokenReq /\ ~h.after.authReq
          ELSE pc = "authWait" /\ h.after.authReq /\ ~h.after.tokenReq
    /\ (h.answered = "auth" /\ SaidAuthorized(h.authResp)) =>
          IF now < C17_Deadline
          THEN pc = "tokenWait" /\ h.after.tokenReq
          ELSE pc = "authWait" /\ h.after.authReq
    /\ (h.answered = "token" /\ SaidToken(h.tokenResp)) => pc = "done"

\* C17 witness: the previous device code lapsed on its deadline, and the login
\* has returned credentials from an answer that arrived at the deadline of
\* the current code, to a request that left before it.
C17_Witness ==
    /\ pc = "done"
    /\ h.authCause = "deadline"
    /\ h.srvAuth.expires_in = 1
    /\ h.answeredAt >= C17_Deadline

\* C19: between two consecutive device-authorization requests of one login
\* at least one token request carries the device code of the first, whatever
\* expires_in and interval the server reported.
C19_PollBetweenAuthorizations ==
    (pc = "authWait" /\ h.authCause \in {"expiry", "deadline"}) =>
        /\ h.polls >= 1
        /\ h.reqCode = h.srvAuth.device_code

\* C19, the part the code keeps: a device authorization with a positive
\* lifetime is polled at least once before the next one is requested.
C19_PollBetweenUnlessNotPositive ==
    (pc = "authWait" /\ h.authCause \in {"expiry", "deadline"}
       /\ (h.srvAuth.expires_in >= 0)) =>
        /\ h.polls >= 1
        /\ h.reqCode = h.srvAuth.device_code

\* C18: with a login and a refresh under way at the same time, interleaved
\* at their awaits, the device id is made once: every request either call
\* has sent carries the one value DEVICE_ID holds, and an id once sent is
\* never replaced.
C18_OneDeviceId ==
    /\ h.sentIds \subseteq {DEVICE_ID}
    /\ DEVICE_ID = "" => (pc = "idle" /\ rpc = "idle" /\ h.sentIds = {})
    /\ DEVICE_ID # "" => (DEVICE_ID \in DeviceIds /\ h.sentIds = {DEVICE_ID})

\* C18 witness: the refresh request is in flight while the login, which has
\* restarted once and polled, sleeps; all requests carried id2.
C18_Witness ==
    /\ rpc = "wait"
    /\ pc = "sleeping"
    /\ h.authCause = "expiry"
    /\ h.refreshReqs = 1
    /\ h.polls >= 1
    /\ h.sentIds = {"id2"}

====
